---- MODULE Spec2Model ----
(***************************************************************************)
(* TheraLink AI (src/app.py): a Streamlit script with two role views over  *)
(* one in-memory store, st.session_state["patients"].                      *)
(*                                                                         *)
(* Streamlit re-executes the whole script after every user interaction.    *)
(* One action of this model is one interaction followed by the complete    *)
(* script run it triggers.  Widgets carry no key, so their state lives     *)
(* under an identity computed from their parameters: a widget that a       *)
(* completed run did not render loses its state and shows its default the  *)
(* next time, while a run ended by an uncaught exception prunes nothing.   *)
(* Scores are kept in hundredths (3.5 is 350).  The session is taken to    *)
(* run within one calendar day, so every check-in carries the same Date.   *)
(***************************************************************************)
EXTENDS Integers, Sequences, FiniteSets, TLC

\* ---------------------------------------------------------------- bounds
MaxCheckIns == 2      \* check-in submissions explored, all patients together

\* ------------------------------------------------------ program constants
NumQuestions == 20    \* len(QUESTIONS)
SliderMin == 1
SliderMax == 5
SliderDefault == 3
RedMax == 200         \* last["Score"] <= 2
YellowMax == 350      \* last["Score"] <= 3.5

None == "None"
Today == "today"
DefaultPatientId == "patient_001"
PatientIds == {"", "patient_001"}
NoteTexts == {"", "obs"}

\* Mixed(k, a, b): the first k sliders at a, the others at b.
Mixed(k, a, b) == [i \in 1..NumQuestions |-> IF i <= k THEN a ELSE b]

\* The slider settings the patient is taken to dial in: the defaults and
\* settings at the two thresholds and just above the upper one
\* (sums 40, 60, 70, 71, scores 2.0, 3.0, 3.5, 3.55).
Profiles ==
  { Mixed(0, 2, 2), Mixed(0, 3, 3), Mixed(10, 4, 3), Mixed(11, 4, 3) }

DefaultSliders == Mixed(0, SliderDefault, SliderDefault)

\* no text area on the page
NoTextArea == [live |-> FALSE, default |-> "", value |-> ""]

VARIABLES
  role,              \* st.sidebar.radio("Select Role", ...)
  patients,          \* st.session_state["patients"]: id -> record
  order,             \* insertion order of the keys of patients (dict order)
  selected_patient,  \* st.session_state["selected_patient"]
  w_patient_id,      \* state of st.text_input("Patient ID (Demo)")
  w_sliders,         \* state of the 20 st.slider widgets
  w_select,          \* state of st.selectbox("Select Patient")
  w_toggle,          \* state of st.toggle("Verify AI Alert")
  w_notes,           \* state of st.text_area: [live, default, value]
  outcome,           \* how the last script run ended
  overview,          \* rows of the triage overview shown by the last run
  badge,             \* risk badge shown by the last run
  llmCalls,          \* chain.run invocations of the last run
  summaryScore,      \* << score >> handed to the last chain.run, or << >>
  submitted          \* history: per id, the check-ins submitted so far

vars == << role, patients, order, selected_patient, w_patient_id,
           w_sliders, w_select, w_toggle, w_notes, outcome, overview, badge,
           llmCalls, summaryScore, submitted >>

\* ---------------------------------------------------------- pure helpers
RECURSIVE SumSeq(_)
SumSeq(s) == IF Len(s) = 0 THEN 0 ELSE s[1] + SumSeq(Tail(s))

Last(s) == s[Len(s)]

\* round(x, 2) of x = num/den, in hundredths; ties go to the even digit.
Round2(num, den) ==
  LET q == (100 * num) \div den
      r == (100 * num) % den
  IN  IF 2 * r < den THEN q
      ELSE IF 2 * r > den THEN q + 1
      ELSE IF q % 2 = 0 THEN q ELSE q + 1

ScoreTruncated(responses) == 100 * (SumSeq(responses) \div Len(responses))

\* score = round(np.mean(responses), 2)
Score(responses) == Round2(SumSeq(responses), Len(responses))

RiskOverviewStrict(score) ==
  IF score < RedMax THEN "RED" ELSE IF score < YellowMax THEN "YELLOW" ELSE "GREEN"

\* "Risk" column of the overview
RiskOverview(score) ==
  IF score <= RedMax THEN "RED" ELSE IF score <= YellowMax THEN "YELLOW" ELSE "GREEN"

\* risk status badge of the selected patient
RiskBadge(score) ==
  IF score <= RedMax THEN "RED" ELSE IF score <= YellowMax THEN "YELLOW" ELSE "GREEN"

NewRecordVerified == [history |-> << >>, notes |-> "", verified |-> TRUE]

\* the record created for an unknown patient id
NewRecord == [history |-> << >>, notes |-> "", verified |-> FALSE]

PrependCheckIn(history, entry) == << entry >> \o history

DropCheckIn(history, entry) == history

\* pdata["history"].append(entry)
AppendCheckIn(history, entry) == Append(history, entry)

StoreNeverEmpty(store) == FALSE

\* not patients
StoreEmpty(store) == DOMAIN store = {}

EmptyStore == [p \in {} |-> NewRecord]

RECURSIVE CountCheckIns(_, _)
CountCheckIns(store, ids) ==
  IF Len(ids) = 0 THEN 0
  ELSE Len(store[ids[1]].history) + CountCheckIns(store, Tail(ids))

\* the overview rows, one per patient in dict order
OverviewRows(store, ids) ==
  [i \in 1..Len(ids) |->
     LET last == Last(store[ids[i]].history)
     IN  [pid |-> ids[i], score |-> last.Score, risk |-> RiskOverview(last.Score)]]

\* st.selectbox: the kept choice, or the first option for a fresh widget
Selectbox(options, state) ==
  IF \E i \in 1..Len(options) : options[i] = state THEN state ELSE options[1]

\* st.text_area(value=default): the kept text of the widget with this very
\* default, or the default for a fresh widget
TextArea(default, state) ==
  IF state.live /\ state.default = default THEN state.value ELSE default

CachedSummaryCalls(score, lastScore) ==
  IF << score >> = lastScore THEN 0 ELSE 1

\* chain = LLMChain(...); chain.run(score=latest_score): the calls it makes,
\* whatever score the call before was made for
SummaryCalls(score, lastScore) == 1

\* ------------------------------------------------------------------ Init
Init ==
  /\ role = "Patient"
  /\ patients = EmptyStore
  /\ order = << >>
  /\ selected_patient = None
  /\ w_patient_id = DefaultPatientId
  /\ w_sliders = DefaultSliders
  /\ w_select = None
  /\ w_toggle = FALSE
  /\ w_notes = NoTextArea
  /\ outcome = "ok"
  /\ overview = << >>
  /\ badge = None
  /\ llmCalls = 0
  /\ summaryScore = << >>
  /\ submitted = [p \in PatientIds |-> << >>]

\* ------------------------------------------------------------ script runs
\* The Patient branch of the script, with the widgets showing pid and resp
\* and the submit button pressed or not.
PatientRun(pid, resp, clicked) ==
  LET score == Score(resp)
      entry == [Date |-> Today, Score |-> score, Responses |-> resp]
      known == pid \in DOMAIN patients
      created == [q \in DOMAIN patients \cup {pid} |->
                    IF q \in DOMAIN patients THEN patients[q] ELSE NewRecord]
  IN  /\ w_patient_id' = pid
      /\ w_sliders' = resp
      /\ w_select' = None
      /\ w_toggle' = FALSE
      /\ w_notes' = NoTextArea
      /\ IF clicked
         THEN /\ patients' = [created EXCEPT
                                ![pid].history = AppendCheckIn(@, entry)]
              /\ order' = IF known THEN order ELSE Append(order, pid)
              /\ submitted' = [submitted EXCEPT
                                 ![pid] = Append(@, [Responses |-> resp,
                                                     Score |-> score])]
         ELSE UNCHANGED << patients, order, submitted >>
      /\ outcome' = "ok"
      /\ overview' = << >>
      /\ badge' = None
      /\ llmCalls' = 0
      /\ UNCHANGED << selected_patient, summaryScore >>

\* A run that an uncaught exception ends: what it wrote before stays, no
\* widget state is pruned.
Aborted(sel, tog, notes) ==
  /\ outcome' = "error"
  /\ w_select' = sel
  /\ w_toggle' = tog
  /\ w_notes' = notes
  /\ UNCHANGED << patients, order, submitted, w_patient_id, w_sliders >>

\* The Doctor branch of the script, with the widget states sel, tog, notes
\* and the external call succeeding or raising.
DoctorRun(sel, tog, notes, llmOk) ==
  IF StoreEmpty(patients)
     THEN \* st.warning("No patient data available.")
          /\ outcome' = "no_data"
          /\ overview' = << >>
          /\ badge' = None
          /\ w_patient_id' = DefaultPatientId
          /\ w_sliders' = DefaultSliders
          /\ w_select' = None
          /\ w_toggle' = FALSE
          /\ w_notes' = NoTextArea
          /\ llmCalls' = 0
          /\ UNCHANGED << patients, order, submitted,
                          selected_patient, summaryScore >>
     ELSE IF \E i \in 1..Len(order) : Len(patients[order[i]].history) = 0
     THEN \* pdata["history"][-1] raises IndexError
          /\ Aborted(sel, tog, notes)
          /\ overview' = << >>
          /\ badge' = None
          /\ llmCalls' = 0
          /\ UNCHANGED << selected_patient, summaryScore >>
     ELSE IF Len(order) = 0
     THEN \* overview_df["Patient ID"] raises KeyError on a frame of no rows
          /\ Aborted(sel, tog, notes)
          /\ overview' = << >>
          /\ badge' = None
          /\ llmCalls' = 0
          /\ UNCHANGED << selected_patient, summaryScore >>
     ELSE LET selected == Selectbox(order, sel)
              pdata == patients[selected]
              latest_score == Last(pdata.history).Score
              text == TextArea(pdata.notes, notes)
          IN  /\ overview' = OverviewRows(patients, order)
              /\ selected_patient' = selected
              /\ badge' = RiskBadge(latest_score)
              /\ llmCalls' = SummaryCalls(latest_score, summaryScore)
              /\ summaryScore' = << latest_score >>
              /\ IF llmOk
                 THEN /\ outcome' = "ok"
                      /\ patients' = [patients EXCEPT
                                        ![selected].verified = tog,
                                        ![selected].notes = text]
                      /\ w_select' = selected
                      /\ w_toggle' = tog
                      /\ w_notes' = [live |-> TRUE, default |-> pdata.notes,
                                   value |-> text]
                      /\ w_patient_id' = DefaultPatientId
                      /\ w_sliders' = DefaultSliders
                      /\ UNCHANGED << order, submitted >>
                 ELSE Aborted(selected, tog, notes)

\* ---------------------------------------------------------------- actions
\* The user picks the other role in the sidebar.
SwitchRole ==
  \E r \in {"Patient", "Doctor"} :
    /\ r # role
    /\ role' = r
    /\ IF r = "Patient"
       THEN PatientRun(w_patient_id, w_sliders, FALSE)
       ELSE \E llmOk \in BOOLEAN : DoctorRun(w_select, w_toggle, w_notes, llmOk)

\* The user reruns the page without touching a widget.
Rerun ==
  /\ UNCHANGED role
  /\ IF role = "Patient"
     THEN PatientRun(w_patient_id, w_sliders, FALSE)
     ELSE \E llmOk \in BOOLEAN : DoctorRun(w_select, w_toggle, w_notes, llmOk)

\* The patient types another id into the text input.
SetPatientId ==
  /\ role = "Patient"
  /\ UNCHANGED role
  /\ \E pid \in PatientIds \ {w_patient_id} :
       PatientRun(pid, w_sliders, FALSE)

\* The patient moves the sliders to another setting.
SetSliders ==
  /\ role = "Patient"
  /\ UNCHANGED role
  /\ \E resp \in Profiles \ {w_sliders} :
       PatientRun(w_patient_id, resp, FALSE)

\* The patient presses "Submit Check-In".
SubmitCheckIn ==
  /\ role = "Patient"
  /\ CountCheckIns(patients, order) < MaxCheckIns
  /\ UNCHANGED role
  /\ PatientRun(w_patient_id, w_sliders, TRUE)

\* The clinician picks another patient in the select box.
SelectPatient ==
  /\ role = "Doctor"
  /\ UNCHANGED role
  /\ \E i \in 1..Len(order) :
       /\ order[i] # w_select
       /\ \E llmOk \in BOOLEAN : DoctorRun(order[i], w_toggle, w_notes, llmOk)

\* The clinician flips "Verify AI Alert"; the toggle is on the page only
\* when the last run got as far as rendering it.
ToggleVerify ==
  /\ role = "Doctor"
  /\ outcome = "ok"
  /\ UNCHANGED role
  /\ \E llmOk \in BOOLEAN : DoctorRun(w_select, ~w_toggle, w_notes, llmOk)

\* The clinician replaces the text of the notes field.
EditNotes ==
  /\ role = "Doctor"
  /\ outcome = "ok"
  /\ w_notes.live
  /\ UNCHANGED role
  /\ \E t \in NoteTexts \ {w_notes.value} :
       \E llmOk \in BOOLEAN :
         DoctorRun(w_select, w_toggle, [w_notes EXCEPT !.value = t], llmOk)

Next ==
  \/ SwitchRole
  \/ Rerun
  \/ SetPatientId
  \/ SetSliders
  \/ SubmitCheckIn
  \/ SelectPatient
  \/ ToggleVerify
  \/ EditNotes

Spec == Init /\ [][Next]_vars

\* ------------------------------------------- scoring over all slider sums
\* Slider settings of every sum from 20 to 100.
Settings == { Mixed(k, a + 1, a) : k \in 0..NumQuestions, a \in SliderMin..(SliderMax - 1) }

\* The Patient view with the sliders already moved to some setting and
\* nothing submitted yet.
InitScore ==
  /\ role = "Patient"
  /\ patients = EmptyStore
  /\ order = << >>
  /\ selected_patient = None
  /\ w_patient_id = DefaultPatientId
  /\ w_sliders \in Settings
  /\ w_select = None
  /\ w_toggle = FALSE
  /\ w_notes = NoTextArea
  /\ outcome = "ok"
  /\ overview = << >>
  /\ badge = None
  /\ llmCalls = 0
  /\ summaryScore = << >>
  /\ submitted = [p \in PatientIds |-> << >>]

NextScore ==
  \/ SubmitCheckIn
  \/ SetPatientId
  \/ SwitchRole
  \/ Rerun
  \/ SelectPatient

SpecScore == InitScore /\ [][NextScore]_vars

\* ================================================================ claims
Known == DOMAIN patients

\* the tier the specification assigns to a score
SpecTier(score) ==
  CHOOSE t \in {"RED", "YELLOW", "GREEN"} :
    /\ (t = "RED") <=> (score <= 200)
    /\ (t = "YELLOW") <=> (200 < score /\ score <= 350)
    /\ (t = "GREEN") <=> (score > 350)

\* C1: after N submissions for a patient the history has exactly N entries,
\* and the k-th entry holds the responses and the score of the k-th
\* submission, whatever other operations ran in between.
C1_HistoryIsSubmissionLog ==
  \A p \in PatientIds :
    IF p \in Known
    THEN /\ Len(patients[p].history) = Len(submitted[p])
         /\ \A k \in 1..Len(submitted[p]) :
              /\ patients[p].history[k].Responses = submitted[p][k].Responses
              /\ patients[p].history[k].Score = submitted[p][k].Score
    ELSE submitted[p] = << >>

\* two different check-ins of one patient, with a clinician's verification
\* in the record
C1_Witness ==
  \E p \in Known :
    /\ Len(patients[p].history) = 2
    /\ patients[p].history[1].Responses # patients[p].history[2].Responses
    /\ patients[p].verified

\* C2: every stored check-in has exactly 20 responses, each in 1..5, and its
\* score is the mean of the responses to two decimals (100*score =
\* 5*sum(responses)), hence within [1.0, 5.0].
C2_ScoreIsRoundedMean ==
  \A p \in Known :
    \A k \in 1..Len(patients[p].history) :
      LET c == patients[p].history[k]
      IN  /\ Len(c.Responses) = 20
          /\ \A i \in 1..Len(c.Responses) : c.Responses[i] \in 1..5
          /\ c.Score = 5 * SumSeq(c.Responses)
          /\ 100 <= c.Score /\ c.Score <= 500

\* a stored check-in whose mean has two significant decimals (2.05)
C2_Witness ==
  \E p \in Known :
    \E k \in 1..Len(patients[p].history) :
      /\ patients[p].history[k].Score = 205
      /\ SumSeq(patients[p].history[k].Responses) = 41

\* C3: the tier is the step function RED (score <= 2.0), YELLOW
\* (2.0 < score <= 3.5), GREEN (score > 3.5) of the score, on every score
\* from 1.00 to 5.00 and in every overview row, and the badge of the
\* selected patient shows the tier of that patient's overview row.
C3_RiskTier ==
  /\ \A sc \in 100..500 :
       RiskOverview(sc) = SpecTier(sc) /\ RiskBadge(sc) = SpecTier(sc)
  /\ \A i \in 1..Len(overview) :
       /\ overview[i].score = Last(patients[overview[i].pid].history).Score
       /\ overview[i].risk = SpecTier(overview[i].score)
  /\ badge # None =>
       \E i \in 1..Len(overview) :
         /\ overview[i].pid = selected_patient
         /\ overview[i].risk = badge

\* two patients in different tiers, the one at the RED threshold selected
C3_Witness ==
  /\ Len(overview) = 2
  /\ badge = "RED"
  /\ \E i \in 1..2 : overview[i].pid = selected_patient /\ overview[i].score = 200
  /\ \E i \in 1..2 : overview[i].risk = "YELLOW"

\* C4: a submission creates the record only for an unknown id, with empty
\* notes and verified = false; for a known id it appends one entry and
\* leaves notes and verified alone; no other record changes, and no other
\* operation creates a record.
C4_SubmitFrame ==
  [][ /\ \A p \in PatientIds :
           submitted'[p] # submitted[p] =>
             /\ DOMAIN patients' = Known \cup {p}
             /\ p \notin Known =>
                  /\ patients'[p].notes = ""
                  /\ patients'[p].verified = FALSE
                  /\ Len(patients'[p].history) = 1
             /\ p \in Known =>
                  /\ patients'[p].notes = patients[p].notes
                  /\ patients'[p].verified = patients[p].verified
                  /\ Len(patients'[p].history) = Len(patients[p].history) + 1
                  /\ \A k \in 1..Len(patients[p].history) :
                       patients'[p].history[k] = patients[p].history[k]
             /\ \A q \in Known \ {p} : patients'[q] = patients[q]
      /\ submitted' = submitted => DOMAIN patients' = Known
    ]_vars

\* the Patient view showing the sliders of the second check-in of a patient
\* whose record carries notes and a verification
C4_Witness ==
  /\ role = "Patient"
  /\ w_patient_id \in Known
  /\ w_sliders # DefaultSliders
  /\ LET r == patients[w_patient_id]
     IN  /\ Len(r.history) = 2
         /\ Last(r.history).Responses = w_sliders
         /\ r.notes = "obs"
         /\ r.verified

\* C5: a Doctor run on an empty store ends in the "no data" state: no
\* error, no patient listed, no external call, the store still empty and
\* the selected patient as before.
C5_EmptyStoreRender ==
  [][ (role' = "Doctor" /\ Known = {}) =>
        /\ outcome' = "no_data"
        /\ overview' = << >>
        /\ badge' = None
        /\ llmCalls' = 0
        /\ DOMAIN patients' = {}
        /\ selected_patient' = selected_patient
    ]_vars

C5_Witness == role = "Doctor" /\ Known = {} /\ outcome = "no_data"

\* C6: a Doctor run on a non-empty store makes exactly one external call,
\* for the selected patient's latest score, whether the call succeeds or
\* raises and whatever score the call before was for; a Doctor run on an
\* empty store and every Patient run, submissions included, make none.
C6_OneCallPerRender ==
  /\ (role = "Doctor" /\ Known # {}) =>
       /\ llmCalls = 1
       /\ selected_patient \in Known
       /\ summaryScore = << Last(patients[selected_patient].history).Score >>
  /\ (role = "Doctor" /\ Known = {}) => llmCalls = 0
  /\ role = "Patient" => llmCalls = 0

\* a call that raised, made for a patient whom an earlier run verified
C6_Witness ==
  /\ role = "Doctor"
  /\ outcome = "error"
  /\ llmCalls = 1
  /\ selected_patient \in Known
  /\ patients[selected_patient].verified

\* C7: no record is stored under an empty patient id and no stored response
\* lies outside 1..5.
C7_InvalidCheckInBlocked ==
  /\ "" \notin Known
  /\ \A p \in Known :
       \A k \in 1..Len(patients[p].history) :
         \A i \in 1..Len(patients[p].history[k].Responses) :
           patients[p].history[k].Responses[i] \in 1..5

\* C8: a patient's verified flag changes only in a step in which the
\* clinician flips the toggle while that patient is the selected one; in
\* particular not when another patient is selected, the role is switched
\* to Patient and back, or a check-in is submitted.  Stated for the steps
\* that follow a run which did not abort, so that the aborted runs of C9
\* do not enter.
C8_VerifiedOnlyByToggle ==
  [][ outcome # "error" =>
        \A p \in Known :
          patients'[p].verified # patients[p].verified =>
            /\ role = "Doctor"
            /\ role' = "Doctor"
            /\ w_toggle' # w_toggle
            /\ selected_patient' = p
    ]_vars

\* C9: a Doctor run whose external call raises still applies the toggle
\* and the notes field to the selected patient's record, and changes no
\* history.
C9_FailedCallNonFatal ==
  [][ (role' = "Doctor" /\ outcome' = "error" /\ llmCalls' = 1) =>
        /\ patients'[selected_patient'].verified = w_toggle'
        /\ w_notes'.live =>
             patients'[selected_patient'].notes = w_notes'.value
        /\ \A p \in Known : patients'[p].history = patients[p].history
    ]_vars

\* C10: every patient in the store has at least one check-in, so no run
\* fails on an empty history (a run that fails has made its external
\* call), and a selected patient that is not None is in the store.
C10_HistoryNeverEmpty ==
  /\ \A p \in Known : Len(patients[p].history) >= 1
  /\ \A i \in 1..Len(order) : order[i] \in Known
  /\ outcome = "error" => llmCalls = 1
  /\ selected_patient # None => selected_patient \in Known

\* the second of two patients selected on the dashboard
C10_Witness ==
  /\ Len(order) = 2
  /\ selected_patient = order[2]
  /\ outcome = "ok"

====
